---- MODULE Spec2Model ----
(***************************************************************************)
(* Contacts-management backend (Fialkaksu/rest_api_python).                *)
(*                                                                         *)
(* State machines over one set of variables:                               *)
(*   Spec       the contact store and the ContactService operations        *)
(*   SpecToken  the JWT functions over every kind of token, one identity   *)
(*   SpecAuth   the identity store, the aiocache-backed identity cache and *)
(*              the access guard, session tokens only                      *)
(*   SpecUsers  the identity store with its avatar resolver, mail sender   *)
(*              and storage probe                                          *)
(*   SpecRace   create_contact requests interleaved at their storage calls *)
(* Strings that the code matches by substring are sequences of one-letter  *)
(* strings; instants are whole seconds, as in a JWT "exp" claim.           *)
(***************************************************************************)
EXTENDS Integers, Sequences, FiniteSets, TLC

VARIABLES contacts, nextId, pending, users, nextUserId, cache, now, result

vars == <<contacts, nextId, pending, users, nextUserId, cache, now, result>>

contactVars == <<contacts, nextId, pending>>
authVars == <<users, nextUserId, cache, now>>

(***************************************************************************)
(* Bounds of the model                                                     *)
(***************************************************************************)
MaxId == 2
MaxTicks == 2
MaxRequests == 2

(***************************************************************************)
(* Input domains                                                           *)
(***************************************************************************)
Owners == {1, 2}
FirstNames == {<<"a", "n">>}
LastNames == {<<"l", "i">>}
Emails == {<<"a", "@", "x">>, <<"b", "@", "x">>}
Phones == {"p1", "p2"}
D(y, m, d) == [year |-> y, month |-> m, day |-> d]
BirthDates == {D(1990, 1, 2), D(1985, 6, 15), D(2000, 6, 30), D(1995, 11, 29)}
Todays == {D(2024, 12, 28), D(2024, 12, 30), D(2024, 6, 15)}
DaysArgs == {-3, 0, 7}
Pages == {<<0, 10>>, <<1, 10>>, <<0, 1>>, <<0, 0>>, <<-1, 10>>, <<0, -1>>}
Filters == {<<>>, <<"a">>, <<"_">>}

Range(s) == {s[i] : i \in DOMAIN s}

(***************************************************************************)
(* datetime.date arithmetic                                                *)
(***************************************************************************)
IsLeap(y) == (y % 4 = 0 /\ y % 100 # 0) \/ y % 400 = 0

DaysInMonth(y, m) ==
    IF m = 2 THEN (IF IsLeap(y) THEN 29 ELSE 28)
    ELSE IF m \in {4, 6, 9, 11} THEN 30 ELSE 31

NextDay(d) ==
    IF d.day < DaysInMonth(d.year, d.month) THEN D(d.year, d.month, d.day + 1)
    ELSE IF d.month < 12 THEN D(d.year, d.month + 1, 1)
    ELSE D(d.year + 1, 1, 1)

PrevDay(d) ==
    IF d.day > 1 THEN D(d.year, d.month, d.day - 1)
    ELSE IF d.month > 1 THEN D(d.year, d.month - 1, DaysInMonth(d.year, d.month - 1))
    ELSE D(d.year - 1, 12, 31)

RECURSIVE AddDays(_, _)
AddDays(d, n) ==
    IF n = 0 THEN d
    ELSE IF n > 0 THEN AddDays(NextDay(d), n - 1)
    ELSE AddDays(PrevDay(d), n + 1)

(***************************************************************************)
(* Contact table (database/models.py) and ContactModel (schemas.py)        *)
(***************************************************************************)
ContactModel ==
    [first_name : FirstNames, last_name : LastNames, email : Emails,
     phone_number : Phones, birth_date : BirthDates]

\* the bodies update_contact is called with: every email and phone number
UpdateBodies == {body \in ContactModel : body.birth_date = D(1990, 1, 2)}

Contact(id, body, user) ==
    [id |-> id, user_id |-> user,
     first_name |-> body.first_name, last_name |-> body.last_name,
     email |-> body.email, phone_number |-> body.phone_number,
     birth_date |-> body.birth_date]

UniqueViolation_unenforced(table, row) == FALSE

\* unique=True on Contact.email and Contact.phone_number: a row violates the
\* constraint when any OTHER row of the table, of any owner, has the value
UniqueViolation(table, row) ==
    \E c \in table :
        /\ c.id # row.id
        /\ (c.email = row.email \/ c.phone_number = row.phone_number)

(***************************************************************************)
(* SQL LIKE: Column.contains(x) renders  column LIKE '%' || x || '%'  with *)
(* no escaping, so a '%' or '_' inside x keeps its wildcard meaning        *)
(***************************************************************************)
RECURSIVE LikeMatch(_, _)
LikeMatch(s, p) ==
    IF p = <<>> THEN s = <<>>
    ELSE IF Head(p) = "%"
         THEN LikeMatch(s, Tail(p)) \/ (s # <<>> /\ LikeMatch(Tail(s), p))
         ELSE /\ s # <<>>
              /\ (Head(p) = "_" \/ Head(p) = Head(s))
              /\ LikeMatch(Tail(s), Tail(p))

Contains(column, x) == LikeMatch(column, <<"%">> \o x \o <<"%">>)

\* every ordering of a finite set: the row order of a SELECT without ORDER BY
Orderings(S) ==
    {s \in [1..Cardinality(S) -> S] : \A i, j \in DOMAIN s : i # j => s[i] # s[j]}

(***************************************************************************)
(* ContactRepository                                                       *)
(***************************************************************************)
get_contact_by_id_any_owner(table, contact_id, user) ==
    {c \in table : c.id = contact_id}

get_contact_by_id(table, contact_id, user) ==
    {c \in table : c.id = contact_id /\ c.user_id = user}

is_contact_exists(table, email, phone_number, user) ==
    \E c \in table :
        /\ c.user_id = user
        /\ (c.email = email \/ c.phone_number = phone_number)

\* the WHERE clause of get_upcoming_birthdays: date_part('day', ...) of the
\* birth date, of today and of end_date
BirthdayClause(birth_date, tday, end_date) ==
    \/ (birth_date.day >= tday.day /\ birth_date.day <= end_date.day)
    \/ /\ end_date.day < tday.day
       /\ (birth_date.day >= tday.day \/ birth_date.day <= end_date.day)

UpcomingRows(table, days, user, tday) ==
    LET end_date == AddDays(tday, days)
    IN {c \in table : c.user_id = user /\ BirthdayClause(c.birth_date, tday, end_date)}

\* ORDER BY date_part('day', birth_date) ASC; rows with equal keys in any order
UpcomingOrderings(rows) ==
    {s \in Orderings(rows) :
        \A i, j \in DOMAIN s : i < j => s[i].birth_date.day <= s[j].birth_date.day}

SearchRows(table, first_name, last_name, email, user) ==
    {c \in table :
        /\ c.user_id = user
        /\ Contains(c.first_name, first_name)
        /\ Contains(c.last_name, last_name)
        /\ Contains(c.email, email)}

\* OFFSET skip LIMIT limit on an ordered row list, for skip >= 0, limit >= 0
Page(rows, skip, limit) ==
    SubSeq(rows, skip + 1, IF skip + limit < Len(rows) THEN skip + limit ELSE Len(rows))

\* what an operation was called with, how it ended and what it returned;
\* info holds what the call observed on the way (payload decoded, store read)
ResI(op, user, args, outcome, value, info) ==
    [op |-> op, user |-> user, args |-> args, outcome |-> outcome,
     value |-> value, info |-> info]

NoArgs == [none |-> TRUE]

Res(op, user, args, outcome, value) == ResI(op, user, args, outcome, value, NoArgs)

(***************************************************************************)
(* ContactService operations                                               *)
(***************************************************************************)
\* ContactService.create_contact -> is_contact_exists, repository.create_contact
CreateContact(body, user) ==
    /\ nextId <= MaxId
    /\ LET row == Contact(nextId, body, user)
       IN IF is_contact_exists(contacts, body.email, body.phone_number, user)
          THEN /\ result' = Res("create_contact", user, [body |-> body], "HTTP_400", <<>>)
               /\ UNCHANGED <<contacts, nextId>>
          ELSE IF UniqueViolation(contacts, row)
          THEN /\ result' = Res("create_contact", user, [body |-> body], "IntegrityError", <<>>)
               /\ UNCHANGED <<contacts, nextId>>
          ELSE /\ contacts' = contacts \cup {row}
               /\ nextId' = nextId + 1
               /\ result' = Res("create_contact", user, [body |-> body], "ok", <<row>>)
    /\ UNCHANGED <<pending, authVars>>

\* the requests in flight: a slot holds the request that passed its duplicate
\* check and is suspended before its insert, or nothing
Requests == 1..MaxRequests

Idle == <<>>

\* create_contact up to its first suspension point: await is_contact_exists,
\* then either the Conflict or the suspended repository.create_contact
BeginCreateContact(req, body, user) ==
    /\ pending[req] = Idle
    /\ IF is_contact_exists(contacts, body.email, body.phone_number, user)
       THEN /\ result' = Res("create_contact", user, [body |-> body], "HTTP_400", <<>>)
            /\ UNCHANGED pending
       ELSE /\ pending' = [pending EXCEPT ![req] = <<[body |-> body, user |-> user]>>]
            /\ result' = Res("is_contact_exists", user, [body |-> body], "ok", <<>>)
    /\ UNCHANGED <<contacts, nextId, authVars>>

\* the resumed request: db.add, await db.commit() under the unique
\* constraints, db.refresh, return
FinishCreateContact(req) ==
    /\ pending[req] # Idle
    /\ nextId <= MaxId
    /\ LET body == pending[req][1].body
           user == pending[req][1].user
           row == Contact(nextId, body, user)
       IN IF UniqueViolation(contacts, row)
          THEN /\ result' = Res("create_contact", user, [body |-> body], "IntegrityError", <<>>)
               /\ UNCHANGED <<contacts, nextId>>
          ELSE /\ contacts' = contacts \cup {row}
               /\ nextId' = nextId + 1
               /\ result' = Res("create_contact", user, [body |-> body], "ok", <<row>>)
    /\ pending' = [pending EXCEPT ![req] = Idle]
    /\ UNCHANGED authVars

\* ContactService.get_contact -> repository.get_contact_by_id
GetContact(contact_id, user) ==
    /\ LET found == get_contact_by_id(contacts, contact_id, user)
       IN result' = Res("get_contact", user, [contact_id |-> contact_id], "ok",
                        IF found = {} THEN <<>> ELSE <<CHOOSE c \in found : TRUE>>)
    /\ UNCHANGED <<contactVars, authVars>>

\* ContactService.update_contact -> repository.update_contact
UpdateContact(contact_id, body, user) ==
    /\ LET found == get_contact_by_id(contacts, contact_id, user)
           args == [contact_id |-> contact_id, body |-> body]
       IN IF found = {}
          THEN /\ result' = Res("update_contact", user, args, "ok", <<>>)
               /\ UNCHANGED contacts
          ELSE LET old == CHOOSE c \in found : TRUE
                   row == Contact(old.id, body, old.user_id)
               IN IF UniqueViolation(contacts, row)
                  THEN /\ result' = Res("update_contact", user, args, "IntegrityError", <<>>)
                       /\ UNCHANGED contacts
                  ELSE /\ contacts' = (contacts \ {old}) \cup {row}
                       /\ result' = Res("update_contact", user, args, "ok", <<row>>)
    /\ UNCHANGED <<nextId, pending, authVars>>

\* ContactService.remove_contact -> repository.remove_contact
RemoveContact(contact_id, user) ==
    /\ LET found == get_contact_by_id(contacts, contact_id, user)
           args == [contact_id |-> contact_id]
       IN IF found = {}
          THEN /\ result' = Res("remove_contact", user, args, "ok", <<>>)
               /\ UNCHANGED contacts
          ELSE LET old == CHOOSE c \in found : TRUE
               IN /\ contacts' = contacts \ {old}
                  /\ result' = Res("remove_contact", user, args, "ok", <<old>>)
    /\ UNCHANGED <<nextId, pending, authVars>>

\* ContactService.get_upcoming_birthdays -> repository.get_upcoming_birthdays;
\* tday is the value date.today() returns during the call
GetUpcomingBirthdays(days, user, tday) ==
    /\ \E rows \in UpcomingOrderings(UpcomingRows(contacts, days, user, tday)) :
          result' = Res("get_upcoming_birthdays", user,
                        [days |-> days, today |-> tday], "ok", rows)
    /\ UNCHANGED <<contactVars, authVars>>

\* ContactService.get_contacts -> repository.get_contacts.  A negative OFFSET
\* or LIMIT is passed to the database as is: PostgreSQL rejects the statement,
\* SQLite reads a negative OFFSET as 0 and a negative LIMIT as no limit.
GetContacts(first_name, last_name, email, skip, limit, user) ==
    /\ LET args == [first_name |-> first_name, last_name |-> last_name,
                    email |-> email, skip |-> skip, limit |-> limit]
           matching == SearchRows(contacts, first_name, last_name, email, user)
       IN \/ /\ (skip < 0 \/ limit < 0)
             /\ result' = Res("get_contacts", user, args, "DBAPIError", <<>>)
          \/ \E rows \in Orderings(matching) :
                result' = Res("get_contacts", user, args, "ok",
                              Page(rows, IF skip < 0 THEN 0 ELSE skip,
                                         IF limit < 0 THEN Len(rows) ELSE limit))
    /\ UNCHANGED <<contactVars, authVars>>

(***************************************************************************)
(* Identity store: User table and UserRepository / UserService             *)
(***************************************************************************)
Null == "None"
Usernames == {"u1", "u2"}
UserEmails == {"e1"}
Roles == {"user", "admin"}
ADMIN == "admin"
AvatarUrls == {"url"}

UserCreate == [username : Usernames, email : UserEmails, password : {"pw"}, role : Roles]

User(id, body, avatar) ==
    [id |-> id, username |-> body.username, email |-> body.email,
     hashed_password |-> body.password, avatar |-> avatar,
     confirmed |-> FALSE, role |-> body.role]

\* unique=True on User.username and User.email
UserUniqueViolation(table, row) ==
    \E u \in table :
        /\ u.id # row.id
        /\ (u.username = row.username \/ u.email = row.email)

get_user_by_username(table, username) == {u \in table : u.username = username}

get_user_by_email(table, email) == {u \in table : u.email = email}

\* scalar_one_or_none(): the row, or None, as a list of at most one element
OneOrNone(rows) == IF rows = {} THEN <<>> ELSE <<CHOOSE r \in rows : TRUE>>

(***************************************************************************)
(* JSON Web Tokens (jose.jwt) and the token functions of auth_service.py   *)
(***************************************************************************)
JWT_SECRET == "secret"
JWT_EXPIRATION_SECONDS == 3600
EMAIL_TOKEN_SECONDS == 604800
CACHE_TTL == 300
TickStep == CACHE_TTL \div 2

EmptyDict == [k \in {} |-> Null]

\* dict.update({k: v})
Update(dict, k, v) == [x \in (DOMAIN dict) \cup {k} |-> IF x = k THEN v ELSE dict[x]]

\* Optional[int]: <<>> is None, <<n>> is n; "if expires_delta:" is false for
\* None and for 0
Truthy(opt) == opt # <<>> /\ opt[1] # 0

\* jwt.encode: the claims, signed with the key
JwtEncode(claims, key) == [payload |-> claims, key |-> key]

JwtOk(payload) == [ok |-> TRUE, error |-> "", payload |-> payload]
JwtError(kind) == [ok |-> FALSE, error |-> kind, payload |-> EmptyDict]

\* jwt.decode: signature first, then the registered claims: "exp" is rejected
\* when exp < now, "sub" when present and not a string.  A null "sub" passes
\* in python-jose releases that do not type-check the subject, so both
\* outcomes are possible for it.  Every error is a JWTError.
JwtDecode(token, key, t) ==
    IF token.key # key THEN {JwtError("JWTError")}
    ELSE IF "exp" \in DOMAIN token.payload /\ token.payload["exp"] < t
    THEN {JwtError("ExpiredSignatureError")}
    ELSE IF "sub" \in DOMAIN token.payload /\ token.payload["sub"] = Null
    THEN {JwtError("JWTClaimsError"), JwtOk(token.payload)}
    ELSE {JwtOk(token.payload)}

create_access_token_default_ttl(data, expires_delta, t) ==
    JwtEncode(Update(data, "exp", t + JWT_EXPIRATION_SECONDS), JWT_SECRET)

create_access_token(data, expires_delta, t) ==
    LET expire == IF Truthy(expires_delta) THEN t + expires_delta[1]
                  ELSE t + JWT_EXPIRATION_SECONDS
    IN JwtEncode(Update(data, "exp", expire), JWT_SECRET)

create_email_token_drop_claims(data, t) ==
    JwtEncode(Update(Update(EmptyDict, "iat", t), "exp", t + EMAIL_TOKEN_SECONDS),
              JWT_SECRET)

create_email_token(data, t) ==
    JwtEncode(Update(Update(data, "iat", t), "exp", t + EMAIL_TOKEN_SECONDS),
              JWT_SECRET)

(***************************************************************************)
(* Identity cache: @cached(ttl=300, key_builder=cache_key_builder) on      *)
(* get_user_from_db, backed by aiocache's in-memory cache                  *)
(***************************************************************************)
cache_key_builder(username) == <<"username: ", username>>

\* the value stored under a key: <<>> when there is no entry or None is stored
CacheGet(store, key) ==
    IF \E e \in store : e.key = key
    THEN (CHOOSE e \in store : e.key = key).value
    ELSE <<>>

CacheSet(store, key, value, t) ==
    {e \in store : e.key # key} \cup
        {[key |-> key, value |-> value, expires |-> t + CACHE_TTL]}

get_user_from_db_negative_cache(username, table, store, t) ==
    LET key == cache_key_builder(username)
    IN IF \E e \in store : e.key = key
       THEN [user |-> CacheGet(store, key), consulted |-> FALSE, cache |-> store]
       ELSE LET user == OneOrNone(get_user_by_username(table, username))
            IN [user |-> user, consulted |-> TRUE,
                cache |-> CacheSet(store, key, user, t)]

get_user_from_db_uncached(username, table, store, t) ==
    LET user == OneOrNone(get_user_by_username(table, username))
    IN [user |-> user, consulted |-> TRUE,
        cache |-> CacheSet(store, cache_key_builder(username), user, t)]

\* get_user_from_db with its decorator: a stored non-None value is returned
\* without calling the function; otherwise the store is read and the result,
\* None included, is written to the cache
get_user_from_db(username, table, store, t) ==
    LET key == cache_key_builder(username)
        hit == CacheGet(store, key)
    IN IF hit # <<>>
       THEN [user |-> hit, consulted |-> FALSE, cache |-> store]
       ELSE LET user == OneOrNone(get_user_by_username(table, username))
            IN [user |-> user, consulted |-> TRUE,
                cache |-> CacheSet(store, key, user, t)]

(***************************************************************************)
(* Access guard                                                            *)
(***************************************************************************)
Outcome(outcome, user, payload, consulted, store) ==
    [outcome |-> outcome, user |-> user, payload |-> payload,
     consulted |-> consulted, cache |-> store]

\* get_current_user: every way the call can end for this token
get_current_user(token, table, store, t) ==
    {IF ~d.ok
        THEN Outcome("HTTP_401", <<>>, <<>>, FALSE, store)
     ELSE IF "sub" \notin DOMAIN d.payload
        THEN Outcome("KeyError", <<>>, <<d.payload>>, FALSE, store)
     ELSE IF d.payload["sub"] = Null
        THEN Outcome("HTTP_401", <<>>, <<d.payload>>, FALSE, store)
     ELSE LET r == get_user_from_db(d.payload["sub"], table, store, t)
          IN IF r.user = <<>>
             THEN Outcome("HTTP_401", <<>>, <<d.payload>>, r.consulted, r.cache)
             ELSE Outcome("ok", r.user, <<d.payload>>, r.consulted, r.cache)
     : d \in JwtDecode(token, JWT_SECRET, t)}

get_current_admin_user_401(current_user) ==
    IF current_user.role # ADMIN THEN "HTTP_401" ELSE "ok"

get_current_admin_user(current_user) ==
    IF current_user.role # ADMIN THEN "HTTP_403" ELSE "ok"

\* get_email_from_token / get_password_from_token: payload[field]
get_claim_from_token(token, field, t) ==
    {IF ~d.ok THEN [outcome |-> "HTTP_422", value |-> <<>>, payload |-> <<>>]
     ELSE IF field \notin DOMAIN d.payload
        THEN [outcome |-> "KeyError", value |-> <<>>, payload |-> <<d.payload>>]
     ELSE [outcome |-> "ok", value |-> <<d.payload[field]>>, payload |-> <<d.payload>>]
     : d \in JwtDecode(token, JWT_SECRET, t)}

(***************************************************************************)
(* Tokens a caller can present                                             *)
(***************************************************************************)
Claims ==
    {EmptyDict,
     Update(EmptyDict, "sub", "u1"),
     Update(EmptyDict, "sub", Null),
     Update(Update(EmptyDict, "sub", "u1"), "password", "pw"),
     Update(Update(EmptyDict, "sub", "u1"), "exp", 0)}

SessionClaims == {Update(EmptyDict, "sub", u) : u \in Usernames}

ExpiresDeltas == {<<>>, <<-1>>, <<0>>, <<60>>}

Instants(t) == {i * TickStep : i \in 0..(t \div TickStep)}

\* how a presented token came to be: issued by create_access_token or
\* create_email_token at an earlier instant, or signed with a foreign key
Origin(purpose, data, expires_delta, at, forged) ==
    [purpose |-> purpose, data |-> data, expires_delta |-> expires_delta,
     at |-> at, forged |-> forged]

Origins(t, datas, deltas) ==
    {Origin("session", data, delta, at, FALSE) :
        data \in datas, delta \in deltas, at \in Instants(t)}
    \cup {Origin("email", data, <<>>, at, FALSE) : data \in datas, at \in Instants(t)}
    \cup {Origin("session", Update(EmptyDict, "sub", "u1"), <<>>, 0, TRUE)}

TokenOf(origin) ==
    LET issuedToken == IF origin.purpose = "session"
                       THEN create_access_token(origin.data, origin.expires_delta, origin.at)
                       ELSE create_email_token(origin.data, origin.at)
    IN IF origin.forged THEN [issuedToken EXCEPT !.key = "forged"] ELSE issuedToken

(***************************************************************************)
(* Identity operations                                                     *)
(***************************************************************************)
\* UserService.create_user -> Gravatar (may raise), repository.create_user
CreateUser(body, avatar) ==
    /\ LET row == User(nextUserId, body, avatar)
           args == [body |-> body, avatar |-> avatar]
       IN IF UserUniqueViolation(users, row)
          THEN /\ result' = Res("create_user", 0, args, "IntegrityError", <<>>)
               /\ UNCHANGED <<users, nextUserId>>
          ELSE /\ users' = users \cup {row}
               /\ nextUserId' = nextUserId + 1
               /\ result' = Res("create_user", 0, args, "ok", <<row>>)
    /\ UNCHANGED <<contactVars, cache, now>>

\* UserService.update_avatar_url -> repository.update_avatar_url
UpdateAvatarUrl(email, url) ==
    /\ LET found == get_user_by_email(users, email)
           args == [email |-> email, url |-> url]
       IN IF found = {}
          THEN /\ result' = Res("update_avatar_url", 0, args, "AttributeError", <<>>)
               /\ UNCHANGED users
          ELSE LET old == CHOOSE u \in found : TRUE
                   row == [old EXCEPT !.avatar = url]
               IN /\ users' = (users \ {old}) \cup {row}
                  /\ result' = Res("update_avatar_url", 0, args, "ok", <<row>>)
    /\ UNCHANGED <<contactVars, nextUserId, cache, now>>

\* the clock advances; the cache's timers delete entries whose ttl has run
\* out, an entry that expires at this very instant either before or after
\* the calls made at this instant
Tick ==
    /\ now < MaxTicks * TickStep
    /\ now' = now + TickStep
    /\ \E keep \in SUBSET {e \in cache : e.expires = now'} :
          cache' = {e \in cache : e.expires > now'} \cup keep
    /\ UNCHANGED <<contactVars, users, nextUserId, result>>

\* create_access_token(data, expires_delta)
CreateAccessToken(data, expires_delta) ==
    /\ result' = Res("create_access_token", 0,
                     [data |-> data, expires_delta |-> expires_delta, at |-> now],
                     "ok", <<create_access_token(data, expires_delta, now)>>)
    /\ UNCHANGED <<contactVars, authVars>>

\* create_email_token(data)
CreateEmailToken(data) ==
    /\ result' = Res("create_email_token", 0, [data |-> data, at |-> now],
                     "ok", <<create_email_token(data, now)>>)
    /\ UNCHANGED <<contactVars, authVars>>

\* get_current_user(token)
GetCurrentUser(origin) ==
    /\ \E o \in get_current_user(TokenOf(origin), users, cache, now) :
          /\ cache' = o.cache
          /\ result' = ResI("get_current_user", 0, [origin |-> origin],
                            o.outcome, o.user,
                            [payload |-> o.payload, consulted |-> o.consulted,
                             principal |-> o.user, time |-> now])
    /\ UNCHANGED <<contactVars, users, nextUserId, now>>

\* get_current_admin_user(current_user = Depends(get_current_user))
GetCurrentAdminUser(origin) ==
    /\ \E o \in get_current_user(TokenOf(origin), users, cache, now) :
          /\ cache' = o.cache
          /\ LET outcome == IF o.outcome # "ok" THEN o.outcome
                            ELSE get_current_admin_user(o.user[1])
             IN result' = ResI("get_current_admin_user", 0, [origin |-> origin],
                               outcome, IF outcome = "ok" THEN o.user ELSE <<>>,
                               [payload |-> o.payload, consulted |-> o.consulted,
                                principal |-> o.user, time |-> now])
    /\ UNCHANGED <<contactVars, users, nextUserId, now>>

\* get_email_from_token(token)
GetEmailFromToken(origin) ==
    /\ \E o \in get_claim_from_token(TokenOf(origin), "sub", now) :
          result' = ResI("get_email_from_token", 0, [origin |-> origin],
                         o.outcome, o.value,
                         [payload |-> o.payload, consulted |-> FALSE, principal |-> <<>>,
                          time |-> now])
    /\ UNCHANGED <<contactVars, authVars>>

\* get_password_from_token(token)
GetPasswordFromToken(origin) ==
    /\ \E o \in get_claim_from_token(TokenOf(origin), "password", now) :
          result' = ResI("get_password_from_token", 0, [origin |-> origin],
                         o.outcome, o.value,
                         [payload |-> o.payload, consulted |-> FALSE, principal |-> <<>>,
                          time |-> now])
    /\ UNCHANGED <<contactVars, authVars>>

(***************************************************************************)
(* Identity-store mutations, mail sender and storage probe                 *)
(***************************************************************************)
\* UserService.confirmed_email -> repository.confirmed_email
ConfirmedEmail(email) ==
    /\ LET found == get_user_by_email(users, email)
           args == [email |-> email]
       IN IF found = {}
          THEN /\ result' = Res("confirmed_email", 0, args, "AttributeError", <<>>)
               /\ UNCHANGED users
          ELSE LET old == CHOOSE u \in found : TRUE
                   row == [old EXCEPT !.confirmed = TRUE]
               IN /\ users' = (users \ {old}) \cup {row}
                  /\ result' = Res("confirmed_email", 0, args, "ok", <<>>)
    /\ UNCHANGED <<contactVars, nextUserId, cache, now>>

\* what can go wrong while a mail is built and sent: nothing, the SMTP
\* connection (fastapi_mail ConnectionErrors), the message schema (pydantic
\* ValidationError), the SMTP dialogue (aiosmtplib SMTPException)
MailFaults == {"none", "ConnectionErrors", "ValidationError", "SMTPException"}

\* try: ... except ConnectionErrors as err: print(err)
send_mail(fault) ==
    IF fault = "none" \/ fault = "ConnectionErrors" THEN "ok" ELSE fault

\* send_confirm_email(to_email, username, host)
SendConfirmEmail(to_email, fault) ==
    /\ result' = Res("send_confirm_email", 0,
                     [to_email |-> to_email, fault |-> fault,
                      token |-> create_email_token(Update(EmptyDict, "sub", to_email), now)],
                     send_mail(fault), <<>>)
    /\ UNCHANGED <<contactVars, authVars>>

\* send_reset_password_email(to_email, username, host, reset_token)
SendResetPasswordEmail(to_email, fault) ==
    /\ result' = Res("send_reset_password_email", 0,
                     [to_email |-> to_email, fault |-> fault],
                     send_mail(fault), <<>>)
    /\ UNCHANGED <<contactVars, authVars>>

\* the result of db.execute(text("SELECT 1")) and scalar_one_or_none()
Probes == {"1", "None", "SQLAlchemyError"}

Http(status, detail) == [status |-> status, detail |-> detail]

healthchecker_catch_all(probe) ==
    IF probe = "1" THEN Http(200, "Welcome to FastAPI!")
    ELSE Http(500, "Error connecting to the database")

\* healthchecker: the HTTPException raised inside the try block is not an
\* SQLAlchemyError, so the except clause lets it through
healthchecker(probe) ==
    LET raised == IF probe = "SQLAlchemyError" THEN "SQLAlchemyError"
                  ELSE IF probe = "None" THEN "HTTPException"
                  ELSE "nothing"
    IN IF raised = "SQLAlchemyError"
       THEN Http(500, "Error connecting to the database")
       ELSE IF raised = "HTTPException"
       THEN Http(500, "Database is not configured correctly")
       ELSE Http(200, "Welcome to FastAPI!")

Healthchecker(probe) ==
    /\ result' = Res("healthchecker", 0, [probe |-> probe],
                     IF healthchecker(probe).status = 200 THEN "ok" ELSE "HTTP_500",
                     <<healthchecker(probe)>>)
    /\ UNCHANGED <<contactVars, authVars>>

(***************************************************************************)
(* Specification of the contact store                                      *)
(***************************************************************************)
NoResult == Res("none", 0, NoArgs, "ok", <<>>)

Init ==
    /\ contacts = {}
    /\ nextId = 1
    /\ pending = [req \in Requests |-> Idle]
    /\ users = {}
    /\ nextUserId = 1
    /\ cache = {}
    /\ now = 0
    /\ result = NoResult

Next ==
    \/ \E body \in ContactModel, user \in Owners : CreateContact(body, user)
    \/ \E id \in 1..MaxId, user \in Owners : GetContact(id, user)
    \/ \E id \in 1..MaxId, body \in UpdateBodies, user \in Owners :
          UpdateContact(id, body, user)
    \/ \E id \in 1..MaxId, user \in Owners : RemoveContact(id, user)
    \/ \E days \in DaysArgs, user \in Owners, tday \in Todays :
          GetUpcomingBirthdays(days, user, tday)
    \/ \E em \in Filters, page \in Pages, user \in Owners :
          GetContacts(<<>>, <<>>, em, page[1], page[2], user)

Spec == Init /\ [][Next]_vars

(***************************************************************************)
(* Specification of the token functions: every kind of token, one identity *)
(***************************************************************************)
NextToken ==
    \/ CreateUser([username |-> "u1", email |-> "e1", password |-> "pw",
                   role |-> "user"], Null)
    \/ Tick
    \/ \E data \in Claims, delta \in ExpiresDeltas : CreateAccessToken(data, delta)
    \/ \E data \in Claims : CreateEmailToken(data)
    \/ \E origin \in Origins(now, Claims, ExpiresDeltas) : GetCurrentUser(origin)
    \/ \E origin \in Origins(now, Claims, ExpiresDeltas) : GetEmailFromToken(origin)
    \/ \E origin \in Origins(now, Claims, ExpiresDeltas) : GetPasswordFromToken(origin)

SpecToken == Init /\ [][NextToken]_vars

(***************************************************************************)
(* Specification of the access guard: identity store, cache and roles      *)
(***************************************************************************)
NextAuth ==
    \/ \E body \in UserCreate, avatar \in {Null, "g"} : CreateUser(body, avatar)
    \/ \E email \in UserEmails \cup {"e2"}, url \in AvatarUrls : UpdateAvatarUrl(email, url)
    \/ Tick
    \/ \E origin \in Origins(now, SessionClaims, {<<>>, <<60>>}) : GetCurrentUser(origin)
    \/ \E origin \in Origins(now, SessionClaims, {<<>>, <<60>>}) : GetCurrentAdminUser(origin)

SpecAuth == Init /\ [][NextAuth]_vars

(***************************************************************************)
(* Specification of the identity store with its collaborators: avatar      *)
(* resolver, mail sender, storage probe                                    *)
(***************************************************************************)
NextUsers ==
    \/ \E body \in UserCreate, avatar \in {Null, "g"} : CreateUser(body, avatar)
    \/ \E email \in UserEmails \cup {"e2"} : ConfirmedEmail(email)
    \/ \E email \in UserEmails \cup {"e2"}, url \in AvatarUrls : UpdateAvatarUrl(email, url)
    \/ \E email \in UserEmails, fault \in MailFaults : SendConfirmEmail(email, fault)
    \/ \E email \in UserEmails, fault \in MailFaults : SendResetPasswordEmail(email, fault)
    \/ \E probe \in Probes : Healthchecker(probe)

SpecUsers == Init /\ [][NextUsers]_vars

(***************************************************************************)
(* Specification of concurrent creation: the requests of one owner,        *)
(* interleaved at their storage round-trips                                *)
(***************************************************************************)
RaceBodies == {body \in ContactModel : body.birth_date = D(1990, 1, 2)}

NextRace ==
    \/ \E req \in Requests, body \in RaceBodies : BeginCreateContact(req, body, 1)
    \/ \E req \in Requests : FinishCreateContact(req)
    \/ \E id \in 1..MaxId : RemoveContact(id, 1)

SpecRace == Init /\ [][NextRace]_vars

(***************************************************************************)
(* Claims about the contact store (checked under Spec)                     *)
(***************************************************************************)
IsBirthdayCall == result.op = "get_upcoming_birthdays"

\* the calendar window [tday, tday + days] as a set of month+day positions
InWindow(birth_date, tday, days) ==
    \E k \in 0..days :
        LET x == AddDays(tday, k)
        IN x.month = birth_date.month /\ x.day = birth_date.day

OwnedBy(user) == {c \in contacts : c.user_id = user}

\* C1: for days >= 0 get_upcoming_birthdays returns a contact of the owner if
\* and only if its birth month+day lies in the inclusive calendar window
\* [today, today + days] (wrapping over December -> January), so a birthday
\* in a month outside the window is never returned.
C1_WindowIffReturned ==
    (IsBirthdayCall /\ result.args.days >= 0) =>
        \A c \in OwnedBy(result.user) :
            (c \in Range(result.value))
                <=> InWindow(c.birth_date, result.args.today, result.args.days)

\* C2: with days = 0 get_upcoming_birthdays returns exactly the owner's
\* contacts whose birth month and birth day both equal today's.
C2_ZeroDaysExactMonthDay ==
    (IsBirthdayCall /\ result.args.days = 0) =>
        Range(result.value) =
            {c \in OwnedBy(result.user) :
                /\ c.birth_date.month = result.args.today.month
                /\ c.birth_date.day = result.args.today.day}

\* C3: no contact operation exposes or changes another owner's data: every
\* contact an operation returns belongs to the calling owner, and a step made
\* on behalf of an owner leaves every contact of every other owner present
\* and unchanged (in particular update_contact / remove_contact given the id
\* of somebody else's contact).
C3_OwnerIsolation ==
    /\ [](\A i \in DOMAIN result.value : result.value[i].user_id = result.user)
    /\ [][\A c \in contacts : c.user_id # result'.user => c \in contacts']_vars

\* C3 witness: update_contact or remove_contact was called with the id of a
\* contact that belongs to another owner, and that contact is still stored.
C3_Witness ==
    /\ result.op \in {"update_contact", "remove_contact"}
    /\ \E c \in contacts : c.id = result.args.contact_id /\ c.user_id # result.user
    /\ \E c \in contacts : c.user_id = result.user

\* C4: create_contact with an email a contact of the same owner already has
\* fails with the conflict outcome and stores nothing; create_contact with
\* that email (and a phone number nobody uses) for a different owner
\* succeeds and stores the new contact.
C4_ConflictPerOwnerOnly ==
    [][result'.op = "create_contact" =>
        LET b == result'.args.body
            u == result'.user
            sameOwner == \E c \in contacts : c.user_id = u /\ c.email = b.email
            otherOwner == \E c \in contacts : c.user_id # u /\ c.email = b.email
            freshPhone == \A c \in contacts : c.phone_number # b.phone_number
        IN /\ sameOwner => (result'.outcome = "HTTP_400" /\ contacts' = contacts)
           /\ (otherOwner /\ ~sameOwner /\ freshPhone) =>
                 /\ result'.outcome = "ok"
                 /\ \E c \in contacts' \ contacts : c.user_id = u /\ c.email = b.email
    ]_vars

\* C10: get_contacts and get_upcoming_birthdays reject bad arguments: a call
\* with days < 0, skip < 0 or limit <= 0 fails with InvalidArgument and
\* returns no contacts.
C10_BadArgumentsRejected ==
    /\ (IsBirthdayCall /\ result.args.days < 0) =>
          (result.outcome = "InvalidArgument" /\ result.value = <<>>)
    /\ (result.op = "get_contacts" /\ (result.args.skip < 0 \/ result.args.limit <= 0)) =>
          (result.outcome = "InvalidArgument" /\ result.value = <<>>)

(***************************************************************************)
(* Claims about tokens (SpecToken) and the access guard (SpecAuth)         *)
(***************************************************************************)
Decoders == {"get_current_user", "get_email_from_token", "get_password_from_token"}

\* the call decoded a token that one of the issuing functions produced and
\* that had not expired when the call was made
DecodedFresh ==
    /\ result.op \in Decoders
    /\ ~result.args.origin.forged
    /\ result.info.time <= TokenOf(result.args.origin).payload["exp"]

Reserved(purpose) == IF purpose = "email" THEN {"iat", "exp"} ELSE {"exp"}

StringSubject(data) == "sub" \in DOMAIN data => data["sub"] # Null

\* C5: get_current_user ends, for every bearer token, either with a resolved
\* identity or with the Unauthenticated (401) failure, never with another
\* kind of error.
C5_Only401OrIdentity ==
    result.op = "get_current_user" => result.outcome \in {"ok", "HTTP_401"}

\* C6: get_current_admin_user applied to a resolved principal that is not an
\* admin fails with Forbidden (403), never with 401; applied to an admin it
\* returns that principal unchanged.
C6_ForbiddenForNonAdmin ==
    (result.op = "get_current_admin_user" /\ result.info.principal # <<>>) =>
        LET p == result.info.principal[1]
        IN IF p.role # ADMIN
           THEN result.outcome = "HTTP_403" /\ result.value = <<>>
           ELSE result.outcome = "ok" /\ result.value = <<p>>

\* C6 witness: a resolved non-admin principal was refused by the admin guard
C6_Witness ==
    /\ result.op = "get_current_admin_user"
    /\ result.info.principal # <<>>
    /\ result.info.principal[1].role = "user"
    /\ result.outcome = "HTTP_403"

\* C7: while the cache holds an identity for a username and its 300-second
\* ttl has not run out, get_current_user with a live token for that username
\* returns the cached identity and does not read the identity store,
\* whatever the store holds by then.
C7_CachedIdentityServed ==
    [][(/\ result'.op = "get_current_user"
        /\ now' = now /\ users' = users
        /\ result'.info.payload # <<>>
        /\ "sub" \in DOMAIN result'.info.payload[1]
        /\ \E e \in cache :
              /\ e.key = cache_key_builder(result'.info.payload[1]["sub"])
              /\ e.value # <<>>
              /\ now < e.expires)
       => LET e == CHOOSE e \in cache :
                      e.key = cache_key_builder(result'.info.payload[1]["sub"])
          IN /\ result'.outcome = "ok"
             /\ result'.value = e.value
             /\ ~result'.info.consulted
             /\ cache' = cache
    ]_vars

\* C7 witness: get_current_user answered from the cache with an identity
\* that differs from the record the store now holds for that username
C7_Witness ==
    /\ result.op = "get_current_user"
    /\ result.outcome = "ok"
    /\ ~result.info.consulted
    /\ \E u \in users :
          /\ u.username = result.value[1].username
          /\ u.avatar # result.value[1].avatar

C9_NegativeTtlRejected ==
    (/\ result.op = "get_current_user"
     /\ result.args.origin.purpose = "session"
     /\ result.args.origin.expires_delta = <<-1>>)
    => result.outcome = "HTTP_401"

\* C9 witness: a token issued with expires_delta = -1 for the username of an
\* existing identity was verified at the instant of its issuance
C9_Witness ==
    /\ result.op = "get_current_user"
    /\ result.args.origin.purpose = "session"
    /\ result.args.origin.expires_delta = <<-1>>
    /\ result.args.origin.at = result.info.time
    /\ "sub" \in DOMAIN result.args.origin.data
    /\ \E u \in users : u.username = result.args.origin.data["sub"]

(***************************************************************************)
(* Claims about ordering, search and the store invariants (Spec)           *)
(***************************************************************************)
\* the month+day position of a date, the year ignored
Position(date) == date.month * 100 + date.day

\* C11: the list get_upcoming_birthdays returns is sorted ascending by the
\* month+day position of each birthday: for returned contacts at positions
\* i < j the position of the i-th is <= that of the j-th (stated here for
\* calls with days >= 0).
C11_SortedByMonthDay ==
    (IsBirthdayCall /\ result.args.days >= 0) =>
        \A i, j \in DOMAIN result.value :
            i < j => Position(result.value[i].birth_date)
                        <= Position(result.value[j].birth_date)

\* x occurs in s as a contiguous subsequence
IsSubstring(x, s) ==
    \E i \in 1..(Len(s) + 1) :
        /\ i + Len(x) - 1 <= Len(s)
        /\ SubSeq(s, i, i + Len(x) - 1) = x

Min(a, b) == IF a < b THEN a ELSE b

\* C12: get_contacts returns at most limit contacts, each owned by the owner
\* and each containing every supplied filter string as a substring of the
\* corresponding field; with all filters empty, skip = 0 and limit = 10 it
\* returns min(10, number of the owner's contacts) contacts (stated here for
\* calls with skip >= 0 and limit >= 0).
C12_SearchBySubstring ==
    (/\ result.op = "get_contacts"
     /\ result.args.skip >= 0 /\ result.args.limit >= 0)
    => /\ Len(result.value) <= result.args.limit
       /\ \A i \in DOMAIN result.value :
             /\ result.value[i].user_id = result.user
             /\ IsSubstring(result.args.first_name, result.value[i].first_name)
             /\ IsSubstring(result.args.last_name, result.value[i].last_name)
             /\ IsSubstring(result.args.email, result.value[i].email)
       /\ (/\ result.args.first_name = <<>> /\ result.args.last_name = <<>>
           /\ result.args.email = <<>>
           /\ result.args.skip = 0 /\ result.args.limit = 10)
          => Len(result.value) = Min(10, Cardinality(OwnedBy(result.user)))

\* C13: per-owner uniqueness is an invariant of the contact store: no two
\* distinct contacts of the same owner share an email or a phone number.
C13_UniquePerOwner ==
    \A c1, c2 \in contacts :
        (c1 # c2 /\ c1.user_id = c2.user_id) =>
            (c1.email # c2.email /\ c1.phone_number # c2.phone_number)

\* C13 witness: update_contact tried to give a contact the email of another
\* contact of the same owner and the store refused it
C13_Witness ==
    /\ result.op = "update_contact"
    /\ result.outcome = "IntegrityError"
    /\ \E c1, c2 \in OwnedBy(result.user) :
          /\ c1.id = result.args.contact_id
          /\ c2.id # c1.id
          /\ c2.email = result.args.body.email

\* C14: get_contact_by_id, update_contact and remove_contact called with an
\* id that does not exist, or with the id of a contact of another owner,
\* return the same not-found value (None) without raising and leave the
\* contact store unchanged.
C14_NotFoundReturned ==
    [][(/\ result'.op \in {"get_contact", "update_contact", "remove_contact"}
        /\ ~\E c \in contacts :
               c.id = result'.args.contact_id /\ c.user_id = result'.user)
       => /\ result'.outcome = "ok"
          /\ result'.value = <<>>
          /\ contacts' = contacts
    ]_vars

\* C14 witness: remove_contact was called with an id no contact has, while
\* the store holds contacts, and returned None
C14_Witness ==
    /\ result.op = "remove_contact"
    /\ contacts # {}
    /\ \A c \in contacts : c.id # result.args.contact_id
    /\ result.outcome = "ok"
    /\ result.value = <<>>

(***************************************************************************)
(* Claims about the identity store and its collaborators (SpecUsers)       *)
(***************************************************************************)
\* C15: failures of the avatar resolver and of the mail sender never fail
\* the parent operation: create_user still creates and returns the identity,
\* avatar unset, when the avatar lookup raised (a duplicate username or
\* email aside), and send_confirm_email / send_reset_password_email complete
\* without raising whatever goes wrong while building or sending the mail.
C15_CollaboratorFailuresSuppressed ==
    /\ (result.op = "create_user" /\ result.args.avatar = Null) =>
          \/ /\ result.outcome = "ok"
             /\ result.value[1].avatar = Null
             /\ result.value[1] \in users
          \/ \E u \in users : \/ u.username = result.args.body.username
                              \/ u.email = result.args.body.email
    /\ result.op \in {"send_confirm_email", "send_reset_password_email"} =>
          result.outcome = "ok"

\* C17: the healthchecker has three outcomes, decided by the storage probe:
\* 200 with the welcome message when the probe yields a value, 500 "Error
\* connecting to the database" when the probe raises a storage error, 500
\* "Database is not configured correctly" when the probe yields no value.
C17_HealthcheckerOutcomes ==
    result.op = "healthchecker" =>
        result.value[1] =
            CASE result.args.probe = "1" -> Http(200, "Welcome to FastAPI!")
              [] result.args.probe = "SQLAlchemyError" ->
                    Http(500, "Error connecting to the database")
              [] result.args.probe = "None" ->
                    Http(500, "Database is not configured correctly")

\* C17 witness: the probe yielded no value and the healthchecker failed
C17_Witness ==
    /\ result.op = "healthchecker"
    /\ result.args.probe = "None"
    /\ result.outcome = "HTTP_500"

\* C18: confirmed_email and update_avatar_url called with an email that
\* belongs to no identity return the not-found value without raising.
C18_MissingIdentityReturned ==
    (/\ result.op \in {"confirmed_email", "update_avatar_url"}
     /\ ~\E u \in users : u.email = result.args.email)
    => (result.outcome = "ok" /\ result.value = <<>>)

C20_SuppliedTtlHonoured ==
    /\ result.op = "create_access_token" =>
          result.value[1].payload["exp"] =
              result.args.at + (IF result.args.expires_delta = <<>>
                                THEN JWT_EXPIRATION_SECONDS
                                ELSE result.args.expires_delta[1])
    /\ (/\ result.op = "get_current_user"
        /\ result.args.origin.purpose = "session"
        /\ ~result.args.origin.forged
        /\ result.args.origin.expires_delta = <<0>>
        /\ result.info.time > result.args.origin.at)
       => result.outcome = "HTTP_401"

(***************************************************************************)
(* Claims about concurrent creation (SpecRace)                             *)
(***************************************************************************)
\* C19: when create_contact requests of one owner carrying the same email or
\* phone number interleave at their storage calls, at most one contact with
\* that email or phone number is stored and every request that stored
\* nothing ended with the Conflict outcome (HTTP 400), no other error kind.
C19_RaceEndsInConflict ==
    /\ \A c1, c2 \in contacts :
          (c1.user_id = c2.user_id
             /\ (c1.email = c2.email \/ c1.phone_number = c2.phone_number))
          => c1 = c2
    /\ (result.op = "create_contact" /\ result.outcome # "ok")
       => result.outcome = "HTTP_400"

(***************************************************************************)
(* Claims about the purpose of a token (SpecToken)                         *)
(***************************************************************************)
\* C21: tokens are bound to their purpose: a token issued by
\* create_email_token (email verification, password reset) is never accepted
\* by get_current_user, even when its subject equals the username of an
\* existing identity, and a token issued by create_access_token is never
\* accepted by get_email_from_token or get_password_from_token.
C21_TokensBoundToPurpose ==
    /\ (result.op = "get_current_user" /\ result.args.origin.purpose = "email")
       => result.outcome # "ok"
    /\ (/\ result.op \in {"get_email_from_token", "get_password_from_token"}
        /\ result.args.origin.purpose = "session")
       => result.outcome # "ok"

============================================================================
